---- MODULE Spec2Model ----
(***************************************************************************)
(* State-machine model of youtube-daily-summaries: the Flask webhook       *)
(* endpoints of app.py, the Pub/Sub listener callback, the pipeline        *)
(* process_video (app.py and Summarizer.TranscriptProcessor) and the       *)
(* storage manager of cloud_storage.py.                                    *)
(*                                                                         *)
(* Text is a sequence of one-character strings.  Python's None is the      *)
(* value None, a str is Str(s), and a raised exception is an outcome of    *)
(* its own ("raised"), so that a handler's try/except is visible.          *)
(***************************************************************************)
EXTENDS Integers, Sequences, FiniteSets, TLC

\* ------------------------------------------------------------------ bounds
MaxItems == 2        \* items in one batched JSON delivery
MaxStarts == 2       \* operations are handled while fewer runs than this were started
MaxMessages == 2     \* Pub/Sub messages published to the subscription
MaxDeliveries == 2   \* deliveries of one Pub/Sub message to the callback
MaxFragments == 3    \* fragments that make up a text handed to extract_id
MaxClock == 1        \* readings of the clock at a call of upload_summary
MaxUploads == 2      \* upload_summary is called while the bucket holds fewer blobs

\* -------------------------------------------------------- program constants
IdLen == 11
max_transcript_length == 10000

\* ------------------------------------------------------------------ values
None == [tag |-> "None"]
Absent == [tag |-> "absent"]
JNum == [tag |-> "num"]
Str(s) == [tag |-> "str", s |-> s]
Txt(n) == [tag |-> "text", len |-> n]

IsStr(v) == v.tag = "str"

\* Python truthiness of an optional text / optional str
Truthy(v) ==
    CASE v.tag = "str" -> Len(v.s) > 0
      [] v.tag = "text" -> v.len > 0
      [] v.tag = "num" -> TRUE
      [] OTHER -> FALSE

\* ------------------------------------------------------------------- text
Lower == {"a", "b", "c", "d", "e", "f", "g", "h", "i", "j", "k", "l", "m",
          "n", "o", "p", "q", "r", "s", "t", "u", "v", "w", "x", "y", "z"}
Upper == {"A", "B", "C", "D", "E", "F", "G", "H", "I", "J", "K", "L", "M",
          "N", "O", "P", "Q", "R", "S", "T", "U", "V", "W", "X", "Y", "Z"}
Digit == {"0", "1", "2", "3", "4", "5", "6", "7", "8", "9"}

\* the class [a-zA-Z0-9_-] of the identifier patterns
IdChars == Lower \cup Upper \cup Digit \cup {"_", "-"}

Min(S) == CHOOSE x \in S : \A y \in S : x <= y

\* F applied to the value of x, with x evaluated once
Bind(x, F(_)) == CHOOSE y \in {F(v) : v \in {x}} : TRUE

\* text[i..] starts with pat
StartsAt(text, i, pat) ==
    /\ i + Len(pat) - 1 <= Len(text)
    /\ \A j \in 1..Len(pat) : text[i + j - 1] = pat[j]

\* Python: pat in text
Contains(text, pat) == \E i \in 1..(Len(text) + 1) : StartsAt(text, i, pat)

\* the regular expression  prefix([a-zA-Z0-9_-]{11})  matches at position i
MatchAt(text, i, prefix) ==
    /\ StartsAt(text, i, prefix)
    /\ i + Len(prefix) + IdLen - 1 <= Len(text)
    /\ \A j \in 0..(IdLen - 1) : text[i + Len(prefix) + j] \in IdChars

\* re.search(prefix([a-zA-Z0-9_-]{11}), text): group 1 of the leftmost match
re_search(prefix, text) ==
    Bind({i \in 1..Len(text) : MatchAt(text, i, prefix)},
         LAMBDA pos :
            IF pos = {} THEN None
            ELSE Bind(Min(pos),
                      LAMBDA i : Str(SubSeq(text, i + Len(prefix),
                                            i + Len(prefix) + IdLen - 1))))

\* mutant: the shorts/ pattern is tried before the embed/ pattern
url_patterns_shorts_first ==
    << <<"v", "=">>,
       <<"y", "o", "u", "t", "u", ".", "b", "e", "/">>,
       <<"s", "h", "o", "r", "t", "s", "/">>,
       <<"e", "m", "b", "e", "d", "/">>,
       <<"w", "a", "t", "c", "h", "?", "v", "=">> >>

url_patterns ==
    << <<"v", "=">>,
       <<"y", "o", "u", "t", "u", ".", "b", "e", "/">>,
       <<"e", "m", "b", "e", "d", "/">>,
       <<"s", "h", "o", "r", "t", "s", "/">>,
       <<"w", "a", "t", "c", "h", "?", "v", "=">> >>

RECURSIVE first_pattern_match(_, _)
first_pattern_match(text, k) ==
    IF k > Len(url_patterns) THEN None
    ELSE Bind(re_search(url_patterns[k], text),
              LAMBDA m : IF m # None THEN m ELSE first_pattern_match(text, k + 1))

\* mutant: the bare 11-character run is looked for before the url patterns
extract_id_run_first(text) ==
    Bind(re_search(<<>>, text),
         LAMBDA m : IF m # None THEN m ELSE first_pattern_match(text, 1))

\* app.extract_id on a str
extract_id(text) ==
    Bind(first_pattern_match(text, 1),
         LAMBDA m : IF m # None THEN m ELSE re_search(<<>>, text))

\* ------------------------------------------------------------ sample texts
YOUTUBE_COM == <<"y", "o", "u", "t", "u", "b", "e", ".", "c", "o", "m">>
YOUTU_BE == <<"y", "o", "u", "t", "u", ".", "b", "e">>
ID_A == <<"d", "Q", "w", "4", "w", "9", "W", "g", "X", "c", "Q">>
ID_B == <<"P", "Z", "5", "a", "F", "q", "2", "h", "P", "U", "g">>
URL_WATCH_A == <<"y", "o", "u", "t", "u", "b", "e", ".", "c", "o", "m", "/",
                 "w", "a", "t", "c", "h", "?", "v", "=">> \o ID_A
URL_SHORT_B == <<"y", "o", "u", "t", "u", ".", "b", "e", "/">> \o ID_B
URL_CHANNEL == <<"y", "o", "u", "t", "u", "b", "e", ".", "c", "o", "m", "/", "c", "/", "x">>
URL_OTHER == <<"v", "i", "m", "e", "o", ".", "c", "o", "m", "/">> \o ID_A

VideoIds == {ID_A, ID_B}

\* texts handed to extract_id: concatenations of url shapes, a bare
\* identifier, a v= that too few characters follow, and separators
ID_C == <<"9", "b", "Z", "k", "p", "7", "q", "1", "9", "f", "8">>
ID_D == <<"a", "-", "B", "_", "c", "0", "D", "1", "e", "2", "F">>
ID_E == <<"J", "N", "Q", "X", "A", "C", "9", "I", "V", "R", "w">>
Fragments ==
    { <<"v", "=">> \o ID_A,
      <<"y", "o", "u", "t", "u", ".", "b", "e", "/">> \o ID_B,
      <<"e", "m", "b", "e", "d", "/">> \o ID_C,
      <<"s", "h", "o", "r", "t", "s", "/">> \o ID_D,
      ID_E,
      <<"v", "=", "s", "h", "o", "r", "t">>,
      <<"x">>,
      <<"&">> }

RECURSIVE Flatten(_)
Flatten(fs) == IF fs = <<>> THEN <<>> ELSE Head(fs) \o Flatten(Tail(fs))

Texts == {Flatten(fs) : fs \in UNION {[1..n -> Fragments] : n \in 0..MaxFragments}}

\* ----------------------------------------------------------- collaborators
\* YouTubeTranscriptApi as extract_transcript sees it: list_transcripts raises
\* TranscriptsDisabled, another call raises (video not found, no transcript to
\* select), or fetch() yields entries whose joined text has len characters
TranscriptApi ==
    {[k |-> "disabled", len |-> 0], [k |-> "error", len |-> 0],
     [k |-> "fetched", len |-> 0], [k |-> "fetched", len |-> 5]}

\* genai generate_content: raises, or answers a text of len characters of
\* which ws are leading or trailing whitespace
Gemini ==
    {[k |-> "raise", len |-> 0, ws |-> 0], [k |-> "response", len |-> 0, ws |-> 0],
     [k |-> "response", len |-> 2, ws |-> 2], [k |-> "response", len |-> 5, ws |-> 1]}

\* the bucket: the upload succeeds, upload_from_string raises, or the blob is
\* written and make_public raises
Gcs == {"ok", "upload_error", "acl_error"}

TranscriptYieldsText(api) == api.k = "fetched" /\ api.len > 0
SummaryNonEmpty(g) == g.k = "response" /\ g.len - g.ws > 0

\* The outcomes of the collaborators during one pipeline run.  The outcome of
\* a collaborator that has nothing to work on (no transcript to summarise, no
\* summary to store) is not drawn separately: it is fixed to the successful one.
Env ==
    {e \in [transcript : TranscriptApi, gemini : Gemini, gcs : Gcs] :
        /\ ~TranscriptYieldsText(e.transcript)
              => e.gemini = [k |-> "response", len |-> 5, ws |-> 1]
        /\ (~TranscriptYieldsText(e.transcript) \/ ~SummaryNonEmpty(e.gemini))
              => e.gcs = "ok"}

\* one invocation of a collaborator: the stage, what it was handed, its outcome
Call(stage, arg, outcome) == [stage |-> stage, arg |-> arg, outcome |-> outcome]

\* ----------------------------------------------------------- Summarizer.py
extract_transcript(video_id, api) ==
    IF api.k = "fetched" /\ api.len > 0 THEN Txt(api.len) ELSE None

generate_summary(transcript, gemini) ==
    IF ~Truthy(transcript)
    THEN [ret |-> None, invoked |-> FALSE, prompt_len |-> 0]
    ELSE LET n == IF transcript.len > max_transcript_length
                  THEN max_transcript_length ELSE transcript.len
         IN  IF gemini.k = "raise" \/ gemini.len = 0
             THEN [ret |-> None, invoked |-> TRUE, prompt_len |-> n]
             ELSE [ret |-> Txt(gemini.len - gemini.ws), invoked |-> TRUE,
                   prompt_len |-> n]

\* the record of one pipeline run
Run(via, video_id, outcome, calls, stored) ==
    [via |-> via, vid |-> video_id, outcome |-> outcome, calls |-> calls,
     stored |-> stored]

\* mutant: the check "if not summary: return False" is missing
TranscriptProcessor_process_video_unchecked(video_id, env) ==
    LET t == extract_transcript(video_id, env.transcript)
        c1 == <<Call("TRANSCRIPT", video_id, env.transcript)>>
    IN  IF ~Truthy(t) THEN Run("TranscriptProcessor", video_id, "False", c1, {})
        ELSE LET g == generate_summary(t, env.gemini)
                 c2 == IF g.invoked
                       THEN Append(c1, Call("SUMMARY", g.prompt_len, env.gemini))
                       ELSE c1
             IN  Run("TranscriptProcessor", video_id, "True", c2, {})

TranscriptProcessor_process_video(video_id, env) ==
    LET t == extract_transcript(video_id, env.transcript)
        c1 == <<Call("TRANSCRIPT", video_id, env.transcript)>>
    IN  IF ~Truthy(t) THEN Run("TranscriptProcessor", video_id, "False", c1, {})
        ELSE LET g == generate_summary(t, env.gemini)
                 c2 == IF g.invoked
                       THEN Append(c1, Call("SUMMARY", g.prompt_len, env.gemini))
                       ELSE c1
             IN  IF ~Truthy(g.ret)
                 THEN Run("TranscriptProcessor", video_id, "False", c2, {})
                 ELSE Run("TranscriptProcessor", video_id, "True", c2, {})

\* -------------------------------------------------------- cloud_storage.py
UploadParams == {"summary", "video_id", "channel_id", "video_title", "channel_name"}

RECURSIVE rstrip(_)
rstrip(s) ==
    IF Len(s) > 0 /\ s[Len(s)] = " " THEN rstrip(SubSeq(s, 1, Len(s) - 1)) ELSE s

\* characters outside ASCII for which str.isalnum() is true (each is one
\* character, written by its code point)
OtherAlnum == {"U+00E9", "U+0663"}

\* str.isalnum() of one character
isalnum(c) == c \in Lower \cup Upper \cup Digit \cup OtherAlnum

sanitize_filename(name) ==
    rstrip([i \in 1..Len(name) |->
              IF isalnum(name[i]) \/ name[i] \in {" ", "_"}
              THEN name[i] ELSE "_"])

\* datetime.now().strftime("%Y%m%d_%H%M%S") at the clock reading now
strftime(now) == <<"t">> \o <<<<"0", "1", "2", "3", "4", "5", "6", "7", "8", "9">>[now + 1]>>

S_summaries == <<"s", "u", "m", "m", "a", "r", "i", "e", "s", "/">>
S_summary_txt == <<"_", "s", "u", "m", "m", "a", "r", "y", ".", "t", "x", "t">>

\* mutant: the timestamp is made part of the filename
upload_summary_timestamped(kwargs, gcs, now) ==
    IF DOMAIN kwargs # UploadParams
    THEN [raised |-> TRUE, invoked |-> FALSE, arg |-> None, stored |-> {}, url |-> None]
    ELSE LET timestamp == strftime(now)
             filename == S_summaries \o kwargs.channel_id \o <<"/">>
                           \o sanitize_filename(kwargs.channel_name) \o <<"_">>
                           \o sanitize_filename(kwargs.video_title) \o <<"_">>
                           \o timestamp \o S_summary_txt
             blob == [name |-> filename, content |-> kwargs.summary]
         IN  CASE gcs = "ok" ->
                    [raised |-> FALSE, invoked |-> TRUE, arg |-> Str(filename),
                     stored |-> {blob}, url |-> Str(filename)]
               [] gcs = "acl_error" ->
                    [raised |-> TRUE, invoked |-> TRUE, arg |-> Str(filename),
                     stored |-> {blob}, url |-> None]
               [] OTHER ->
                    [raised |-> TRUE, invoked |-> TRUE, arg |-> Str(filename),
                     stored |-> {}, url |-> None]

\* CloudStorageManager.upload_summary called with the keyword arguments kwargs
\* while the clock reads now.  The parameters have no defaults: a call that
\* names another keyword, or leaves one out, raises TypeError before the body
\* runs.  The timestamp is computed and not used.
upload_summary(kwargs, gcs, now) ==
    IF DOMAIN kwargs # UploadParams
    THEN [raised |-> TRUE, invoked |-> FALSE, arg |-> None, stored |-> {}, url |-> None]
    ELSE LET timestamp == strftime(now)
             filename == S_summaries \o kwargs.channel_id \o <<"/">>
                           \o sanitize_filename(kwargs.channel_name) \o <<"_">>
                           \o sanitize_filename(kwargs.video_title) \o S_summary_txt
             blob == [name |-> filename, content |-> kwargs.summary]
         IN  CASE gcs = "ok" ->
                    [raised |-> FALSE, invoked |-> TRUE, arg |-> Str(filename),
                     stored |-> {blob}, url |-> Str(filename)]
               [] gcs = "acl_error" ->
                    [raised |-> TRUE, invoked |-> TRUE, arg |-> Str(filename),
                     stored |-> {blob}, url |-> None]
               [] OTHER ->
                    [raised |-> TRUE, invoked |-> TRUE, arg |-> Str(filename),
                     stored |-> {}, url |-> None]

\* calls of upload_summary with all of its arguments, as in the example at the
\* end of cloud_storage.py
Names ==
    { <<"T", "V">>, <<"a", "-", "b">>, <<"x", "/", "y", " ">>, <<"U+00E9", "1">> }

UploadKwargs ==
    [summary : {Txt(5)}, video_id : {ID_A}, channel_id : {<<"U", "C", "1">>},
     video_title : Names, channel_name : Names]

Clock == 0..MaxClock

\* ------------------------------------------------------- app.process_video
\* the filename app.process_video derives: summaries/<video_id>_summary.txt
derived_filename(video_id) == S_summaries \o video_id \o S_summary_txt

\* the keyword arguments of the call cloud_storage.upload_summary(...)
process_video_kwargs(video_id, summary) ==
    [summary |-> summary, filename |-> Str(derived_filename(video_id))]

\* len(None) raises TypeError, so do the logging lines after each stage.  The
\* call of upload_summary fails before its body reads the clock, so the clock
\* reading it is given here plays no part.
process_video(video_id, env) ==
    LET t == extract_transcript(video_id, env.transcript)
        c1 == <<Call("TRANSCRIPT", video_id, env.transcript)>>
    IN  IF t.tag = "None" THEN Run("app", video_id, "raised", c1, {})
        ELSE LET g == generate_summary(t, env.gemini)
                 c2 == IF g.invoked
                       THEN Append(c1, Call("SUMMARY", g.prompt_len, env.gemini))
                       ELSE c1
             IN  IF g.ret.tag = "None" THEN Run("app", video_id, "raised", c2, {})
                 ELSE LET u == upload_summary(process_video_kwargs(video_id, g.ret),
                                              env.gcs, 0)
                          c3 == IF u.invoked
                                THEN Append(c2, Call("STORAGE", u.arg, env.gcs))
                                ELSE c2
                      IN  IF u.raised
                          THEN Run("app", video_id, "raised", c3, u.stored)
                          ELSE Run("app", video_id, "True", c3, u.stored)

\* ------------------------------------------------------------------ Flask
\* what a view function does: it returns a response, returns None, or raises
Resp(status, body) == [kind |-> "response", status |-> status, body |-> body]
ReturnsNone == [kind |-> "none", status |-> 0, body |-> None]
Raises == [kind |-> "raised", status |-> 0, body |-> None]

\* a response body of jsonify({'status': ..., ...})
JsonError(message) == [status |-> "error", message |-> message, processed_videos |-> <<>>]
JsonSuccess(processed) == [status |-> "success", message |-> "", processed_videos |-> processed]

\* mutant: the error handler lets the exception through
handle_exception_reraises(e) == Raises

\* @app.errorhandler(Exception)
handle_exception(e) == Resp(500, JsonError("An unexpected error occurred"))

\* Flask answers the request: the view's response, or the error handler's
\* response when the view raises or returns None (a TypeError of make_response)
full_dispatch_request(v) == IF v.kind = "response" THEN v ELSE handle_exception(v)

\* what a handler leaves behind: the view's result and the pipeline runs it made
Handled(v, rs) == [view |-> v, runs |-> rs]

\* -------------------------------------------------- /webhook (Superfeedr)
\* the permalinkUrl of an item dict: absent, null, or a str
ItemUrls ==
    {Absent, None, Str(<<>>), Str(URL_WATCH_A), Str(URL_SHORT_B), Str(URL_CHANNEL)}

\* an element of payload['items']: a dict, or a value without .get
Items ==
    {[k |-> "nondict", permalinkUrl |-> Absent]}
        \cup {[k |-> "dict", permalinkUrl |-> u] : u \in ItemUrls}

ItemLists == UNION {[1..n -> Items] : n \in 0..MaxItems}

\* the JSON value of the body: a falsy value (null, {}, [], 0, ""), a number or
\* true, a non-empty list or str (which may hold "items"), or a dict whose
\* 'items' is absent, not iterable, or a list
JsonPayloads ==
    {[k |-> "falsy", has_items |-> FALSE, items |-> <<>>],
     [k |-> "scalar", has_items |-> FALSE, items |-> <<>>],
     [k |-> "seq", has_items |-> FALSE, items |-> <<>>],
     [k |-> "seq", has_items |-> TRUE, items |-> <<>>],
     [k |-> "dict", has_items |-> FALSE, items |-> <<>>],
     [k |-> "dict_noniter", has_items |-> TRUE, items |-> <<>>]}
        \cup {[k |-> "dict", has_items |-> TRUE, items |-> l] : l \in ItemLists}

JsonRaise == [k |-> "raise", has_items |-> FALSE, items |-> <<>>]
JsonNone == [k |-> "falsy", has_items |-> FALSE, items |-> <<>>]

\* the body of a POST: empty, not JSON, or the text of a JSON value
WebhookBodies ==
    {[k |-> "empty", json |-> JsonNone], [k |-> "garbage", json |-> JsonNone]}
        \cup {[k |-> "json", json |-> p] : p \in JsonPayloads}

WebhookRequests ==
    {[route |-> "/webhook", method |-> "HEAD", json_mimetype |-> FALSE,
      body |-> [k |-> "empty", json |-> JsonNone]]}
        \cup {[route |-> "/webhook", method |-> "POST", json_mimetype |-> m, body |-> b] :
                m \in BOOLEAN, b \in WebhookBodies}

\* request.get_json(): without a JSON mimetype it returns None or raises
\* UnsupportedMediaType (by the Flask version); a body that is not JSON raises
\* BadRequest
request_get_json(req) ==
    IF ~req.json_mimetype THEN {JsonNone, JsonRaise}
    ELSE IF req.body.k = "json" THEN {req.body.json} ELSE {JsonRaise}

\* item.get('permalinkUrl', '')
item_get_permalinkUrl(item) ==
    IF item.permalinkUrl = Absent THEN Str(<<>>) ELSE item.permalinkUrl

\* mutant: the loop without its per-item try/except
RECURSIVE webhook_items_no_inner_try(_, _, _, _, _)
webhook_items_no_inner_try(items, envs, i, processed, rs) ==
    IF i > Len(items) THEN [raised |-> FALSE, processed |-> processed, runs |-> rs]
    ELSE IF items[i].k = "nondict"
    THEN [raised |-> TRUE, processed |-> processed, runs |-> rs]
    ELSE LET video_url == item_get_permalinkUrl(items[i])
         IN  IF ~IsStr(video_url)
             THEN [raised |-> TRUE, processed |-> processed, runs |-> rs]
             ELSE IF Contains(video_url.s, YOUTUBE_COM) \/ Contains(video_url.s, YOUTU_BE)
             THEN Bind(extract_id(video_url.s),
                       LAMBDA video_id :
                         IF Truthy(video_id)
                         THEN Bind(process_video(video_id.s, envs[i]),
                                   LAMBDA r :
                                     IF r.outcome = "raised"
                                     THEN [raised |-> TRUE, processed |-> processed,
                                           runs |-> Append(rs, r)]
                                     ELSE webhook_items_no_inner_try(
                                              items, envs, i + 1,
                                              Append(processed, video_id.s),
                                              Append(rs, r)))
                         ELSE webhook_items_no_inner_try(items, envs, i + 1, processed, rs))
             ELSE webhook_items_no_inner_try(items, envs, i + 1, processed, rs)

\* the loop over payload['items'] from item i on; an exception outside the
\* inner try ends the loop
RECURSIVE webhook_items(_, _, _, _, _)
webhook_items(items, envs, i, processed, rs) ==
    IF i > Len(items) THEN [raised |-> FALSE, processed |-> processed, runs |-> rs]
    ELSE IF items[i].k = "nondict"
    THEN [raised |-> TRUE, processed |-> processed, runs |-> rs]
    ELSE LET video_url == item_get_permalinkUrl(items[i])
         IN  IF ~IsStr(video_url)
             THEN [raised |-> TRUE, processed |-> processed, runs |-> rs]
             ELSE IF Contains(video_url.s, YOUTUBE_COM) \/ Contains(video_url.s, YOUTU_BE)
             THEN Bind(extract_id(video_url.s),
                       LAMBDA video_id :
                         IF Truthy(video_id)
                         THEN Bind(process_video(video_id.s, envs[i]),
                                   LAMBDA r :
                                     IF r.outcome = "raised"
                                     THEN webhook_items(items, envs, i + 1, processed,
                                                        Append(rs, r))
                                     ELSE webhook_items(items, envs, i + 1,
                                                        Append(processed, video_id.s),
                                                        Append(rs, r)))
                         ELSE webhook_items(items, envs, i + 1, processed, rs))
             ELSE webhook_items(items, envs, i + 1, processed, rs)

\* the try block of youtube_webhook; payload is what request.get_json() gave
youtube_webhook_try(payload, envs) ==
    CASE payload.k = "raise" -> Handled(Raises, <<>>)
      [] payload.k = "falsy" -> Handled(Resp(400, JsonError("Invalid payload")), <<>>)
      [] payload.k = "scalar" -> Handled(Raises, <<>>)
      [] payload.k = "seq" ->
            IF payload.has_items THEN Handled(Raises, <<>>)
            ELSE Handled(Resp(400, JsonError("Invalid payload")), <<>>)
      [] payload.k = "dict_noniter" -> Handled(Raises, <<>>)
      [] OTHER ->
            IF ~payload.has_items
            THEN Handled(Resp(400, JsonError("Invalid payload")), <<>>)
            ELSE Bind(webhook_items(payload.items, envs, 1, <<>>, <<>>),
                      LAMBDA l :
                        IF l.raised THEN Handled(Raises, l.runs)
                        ELSE Handled(Resp(200, JsonSuccess(l.processed)), l.runs))

\* mutant: a HEAD request is handled like a POST
youtube_webhook_head_as_post(req, payload, envs) ==
    Bind(youtube_webhook_try(payload, envs),
         LAMBDA h :
           IF h.view.kind = "raised"
           THEN Handled(Resp(500, JsonError("Processing Error")), h.runs)
           ELSE h)

youtube_webhook(req, payload, envs) ==
    IF req.method = "HEAD" THEN Handled(Resp(200, Str(<<>>)), <<>>)
    ELSE Bind(youtube_webhook_try(payload, envs),
              LAMBDA h :
                IF h.view.kind = "raised"
                THEN Handled(Resp(500, JsonError("Processing Error")), h.runs)
                ELSE h)

\* ------------------------------------------- /youtube_webhook (WebSub)
S_subscribe == <<"s", "u", "b", "s", "c", "r", "i", "b", "e">>
S_unsubscribe == <<"u", "n", "s", "u", "b", "s", "c", "r", "i", "b", "e">>
S_publish == <<"p", "u", "b", "l", "i", "s", "h">>
S_topic == <<"t", "o", "p", "i", "c">>
S_challenge == <<"a", "b", "c", "1", "2", "3">>
S_verification_failed == <<"V", "e", "r", "i", "f", "i", "c", "a", "t", "i", "o", "n", " ", "F", "a", "i", "l", "e", "d">>
TEXT_SHORT == <<"s", "h", "o", "r", "t">>

\* the yt:videoId of an entry: no such element, an element without text, or
\* an element with text
EntryVideoIds == {Absent, None, Str(ID_A), Str(ID_B), Str(TEXT_SHORT)}
XmlDocs == UNION {[1..n -> EntryVideoIds] : n \in 0..MaxItems}

LegacyBodies ==
    {[k |-> "empty", entries |-> <<>>], [k |-> "not_utf8", entries |-> <<>>],
     [k |-> "malformed", entries |-> <<>>]}
        \cup {[k |-> "xml", entries |-> d] : d \in XmlDocs}

NoArgs == [hub_mode |-> None, hub_topic |-> None, hub_challenge |-> None]

LegacyRequests ==
    {[route |-> "/youtube_webhook", method |-> "GET", args |-> a,
      body |-> [k |-> "empty", entries |-> <<>>]] :
        a \in [hub_mode : {None, Str(S_subscribe), Str(S_unsubscribe), Str(S_publish)},
               hub_topic : {None, Str(S_topic)},
               hub_challenge : {None, Str(<<>>), Str(S_challenge)}]}
        \cup {[route |-> "/youtube_webhook", method |-> "POST", args |-> NoArgs,
               body |-> b] : b \in LegacyBodies}
        \cup {[route |-> "/youtube_webhook", method |-> "HEAD", args |-> NoArgs,
               body |-> [k |-> "empty", entries |-> <<>>]]}

\* root.find('.//yt:videoId', namespaces): the first such element in document
\* order, or None
RECURSIVE root_find_videoId(_, _)
root_find_videoId(entries, i) ==
    IF i > Len(entries) THEN Absent
    ELSE IF entries[i] # Absent THEN entries[i]
    ELSE root_find_videoId(entries, i + 1)

\* mutant: the verification answers 200 without echoing the challenge
hub_verification_no_echo(args) ==
    IF args.hub_mode = Str(S_subscribe) /\ Truthy(args.hub_challenge)
    THEN Resp(200, Str(<<>>))
    ELSE Resp(400, Str(S_verification_failed))

\* the GET branch: the answer to a hub verification request with query
\* arguments args (the same lines in app.py and in WebSubSubscriber)
hub_verification(args) ==
    IF args.hub_mode = Str(S_subscribe) /\ Truthy(args.hub_challenge)
    THEN Resp(200, args.hub_challenge)
    ELSE Resp(400, Str(S_verification_failed))

\* mutant: a parse error is answered like an empty notification
on_ParseError_ok == Resp(200, Str(<<>>))

\* except ET.ParseError
on_ParseError == Resp(400, Str(<<>>))

\* the body of the outer try of youtube_webhook_legacy
youtube_webhook_legacy_try(req, env) ==
    CASE req.method = "GET" -> Handled(hub_verification(req.args), <<>>)
      [] req.method = "POST" ->
            CASE req.body.k = "not_utf8" -> Handled(Raises, <<>>)
              [] req.body.k = "empty" -> Handled(Resp(200, Str(<<>>)), <<>>)
              [] req.body.k = "malformed" -> Handled(on_ParseError, <<>>)
              [] OTHER ->
                    Bind(root_find_videoId(req.body.entries, 1),
                         LAMBDA video_id_element :
                           IF video_id_element # Absent /\ Truthy(video_id_element)
                           THEN Bind(process_video(video_id_element.s, env),
                                     LAMBDA r :
                                       IF r.outcome = "raised"
                                       THEN Handled(Resp(500, Str(<<>>)), <<r>>)
                                       ELSE IF r.outcome = "True"
                                       THEN Handled(Resp(200, Str(<<>>)), <<r>>)
                                       ELSE Handled(Resp(500, Str(<<>>)), <<r>>))
                           ELSE Handled(Resp(200, Str(<<>>)), <<>>))
      [] OTHER -> Handled(ReturnsNone, <<>>)

\* mutant: the handler without its outer try/except
youtube_webhook_legacy_uncaught(req, env) == youtube_webhook_legacy_try(req, env)

youtube_webhook_legacy(req, env) ==
    Bind(youtube_webhook_legacy_try(req, env),
         LAMBDA h :
           IF h.view.kind = "raised" THEN Handled(Resp(500, Str(<<>>)), h.runs) ELSE h)

\* ------------------------------------ WebSubSubscriber: its own /webhook
SubscriberRequests ==
    {[r EXCEPT !.route = "WebSubSubscriber/webhook"] : r \in LegacyRequests}

\* WebSubSubscriber.setup_routes.webhook.  xmltodict.parse gives feed['feed']
\* ['entry'] as a dict for one entry and as a list for several, and a list has
\* no .get; the view only logs, it starts no pipeline run
subscriber_webhook(req) ==
    CASE req.method = "GET" -> hub_verification(req.args)
      [] req.method = "POST" ->
            IF req.body.k # "xml" \/ Len(req.body.entries) >= 2
            THEN Resp(500, Str(<<>>))
            ELSE Resp(200, Str(<<>>))
      [] OTHER -> ReturnsNone

\* Flask without a registered error handler: a view that returns None or
\* raises is answered with 500 Internal Server Error
InternalServerError(v) == IF v.kind = "response" THEN v ELSE Resp(500, None)

\* --------------------------------------------------- Pub/Sub listener
\* message.data: not UTF-8, not JSON, JSON that is no dict, or a dict whose
\* 'videoUrl' is absent, null, a number or a str
MessageData ==
    {[k |-> "not_utf8", videoUrl |-> Absent], [k |-> "not_json", videoUrl |-> Absent],
     [k |-> "nondict", videoUrl |-> Absent]}
        \cup {[k |-> "dict", videoUrl |-> u] :
                u \in {Absent, None, JNum, Str(<<>>), Str(URL_WATCH_A), Str(URL_CHANNEL)}}

\* what a call returns or raises, with the pipeline runs it made
Returned(outcome, rs) == [outcome |-> outcome, runs |-> rs]

\* app.extract_video_id: None for a falsy url, TypeError for a url that is no str
extract_video_id(url) ==
    IF ~Truthy(url) THEN [outcome |-> "None", runs |-> <<>>, id |-> <<>>]
    ELSE IF ~IsStr(url) THEN [outcome |-> "raised", runs |-> <<>>, id |-> <<>>]
    ELSE Bind(extract_id(url.s),
              LAMBDA video_id :
                IF video_id = None THEN [outcome |-> "None", runs |-> <<>>, id |-> <<>>]
                ELSE [outcome |-> "id", runs |-> <<>>, id |-> video_id.s])

process_video_from_url(video_url, env) ==
    Bind(extract_video_id(video_url),
         LAMBDA x :
           CASE x.outcome = "raised" -> Returned("raised", <<>>)
             [] x.outcome = "None" -> Returned("False", <<>>)
             [] OTHER -> Bind(process_video(x.id, env),
                              LAMBDA r : Returned(r.outcome, <<r>>)))

\* listen_for_pubsub_messages.callback: ack, or nack in the except branch
callback(data, env) ==
    IF data.k # "dict" THEN Returned("nack", <<>>)
    ELSE LET video_url == IF data.videoUrl = Absent THEN None ELSE data.videoUrl
         IN  IF Truthy(video_url)
             THEN Bind(process_video_from_url(video_url, env),
                       LAMBDA p :
                         IF p.outcome = "raised" THEN Returned("nack", p.runs)
                         ELSE Returned("ack", p.runs))
             ELSE Returned("ack", <<>>)

\* ------------------------------------------------- hub subscription
ChannelIds == {"UC_a", "UC_b"}

\* what requests.post to the hub does: a response with a status code, or a
\* requests.RequestException (timeout, connection error)
HubAnswers ==
    {[k |-> "status", code |-> c] : c \in {200, 202, 204, 400, 500}}
        \cup {[k |-> "RequestException", code |-> 0]}

\* the form posted to the hub
HubRequest(mode, channel_id) == [to |-> "hub", mode |-> mode, channel |-> channel_id]

\* what a call returns, with the HTTP requests it sent
Sent(ret, reqs) == [ret |-> ret, sent |-> reqs]

\* app.subscribe_to_channel
subscribe_to_channel(channel_id, hub) ==
    Sent(hub.k = "status" /\ hub.code = 202, <<HubRequest("subscribe", channel_id)>>)

\* WebSubSubscriber.subscribe; https says whether callback_url starts with https://
WebSubSubscriber_subscribe(https, channel_id, hub) ==
    IF ~https THEN Sent(FALSE, <<>>)
    ELSE Sent(hub.k = "status" /\ hub.code = 204, <<HubRequest("subscribe", channel_id)>>)

\* WebSubSubscriber.test_subscription.attempt_subscription
attempt_subscription(mode, channel_id, hub) ==
    Sent(hub.k = "status" /\ hub.code = 204, <<HubRequest(mode, channel_id)>>)

\* mutant: the result is that of both attempts
test_subscription_both(channel_id, hubs) ==
    LET unsubscribe_result == attempt_subscription("unsubscribe", channel_id, hubs[1])
        subscribe_result == attempt_subscription("subscribe", channel_id, hubs[2])
    IN  Sent(unsubscribe_result.ret /\ subscribe_result.ret,
             unsubscribe_result.sent \o subscribe_result.sent)

\* WebSubSubscriber.test_subscription; hubs are the hub's answers to the first
\* and to the second request
test_subscription(channel_id, hubs) ==
    LET unsubscribe_result == attempt_subscription("unsubscribe", channel_id, hubs[1])
        subscribe_result == attempt_subscription("subscribe", channel_id, hubs[2])
    IN  Sent(subscribe_result.ret, unsubscribe_result.sent \o subscribe_result.sent)

\* ------------------------------------------------- main.handle_pubsub
\* the event: None or {}, a dict without 'data', or a dict whose 'data' is
\* None, is not valid base64, decodes to bytes that are not UTF-8, decodes to
\* text that is not JSON, or decodes to JSON text
Events ==
    {[k |-> e] : e \in {"falsy", "no_data", "data_none", "bad_base64", "not_utf8",
                        "not_json", "json"}}

\* what requests.post to the render endpoint does
RenderAnswers ==
    {[k |-> "status", code |-> 200], [k |-> "status", code |-> 500],
     [k |-> "RequestException", code |-> 0]}

RenderRequest == [to |-> "render"]

\* what a direct call returned
Returns(v) == [kind |-> "returned", status |-> 0, body |-> v]

\* main.handle_pubsub(event, context): it returns "Success" or None, or raises
\* again what its outer except caught
handle_pubsub(event, render) ==
    CASE event.k \in {"falsy", "no_data"} -> Sent(Returns(None), <<>>)
      [] event.k \in {"data_none", "bad_base64", "not_utf8"} -> Sent(Raises, <<>>)
      [] event.k = "not_json" -> Sent(Returns(None), <<>>)
      [] OTHER ->
            IF render.k = "status" /\ render.code < 400
            THEN Sent(Returns(Str(<<"S", "u", "c", "c", "e", "s", "s">>)), <<RenderRequest>>)
            ELSE Sent(Returns(None), <<RenderRequest>>)

\* ------------------------------------------------------------------ state
VARIABLES
    phase,      \* "idle", or "handled" while the last operation's outcome stands
    request,    \* the operation handled last
    view,       \* what its view function did
    response,   \* what Flask answered
    runs,       \* the pipeline runs it made, in order
    acked,      \* what the listener callback did with the message
    started,    \* pipeline runs started so far, per video identifier
    bucket,     \* the blobs of the storage bucket
    inbox,      \* the messages of the Pub/Sub subscription
    outbox,     \* the HTTP requests it sent to the hub or the render endpoint
    threads     \* the main thread (app.run) and the Pub/Sub listener thread

vars == <<phase, request, view, response, runs, acked, started, bucket, inbox,
          outbox, threads>>

StartIds == VideoIds \cup {TEXT_SHORT}
MsgIds == 1..MaxMessages

NoRequest == [route |-> "none", method |-> "none"]
NoView == [kind |-> "n/a", status |-> 0, body |-> None]
DefaultEnv == [transcript |-> [k |-> "fetched", len |-> 5],
               gemini |-> [k |-> "response", len |-> 5, ws |-> 1], gcs |-> "ok"]
Unpublished == [status |-> "unpublished", data |-> [k |-> "not_json", videoUrl |-> Absent],
                deliveries |-> 0, attempts |-> 0]

RECURSIVE SumOver(_, _)
SumOver(f, S) ==
    IF S = {} THEN 0
    ELSE LET x == CHOOSE y \in S : TRUE IN f[x] + SumOver(f, S \ {x})

CountRuns(rs, v) == Cardinality({i \in DOMAIN rs : rs[i].vid = v})

RECURSIVE StoredBy(_, _)
StoredBy(rs, i) == IF i > Len(rs) THEN {} ELSE rs[i].stored \cup StoredBy(rs, i + 1)

\* One collaborator environment per item; an item that carries no url text
\* gives the collaborators nothing to be asked about
RECURSIVE EnvsFor(_, _)
EnvsFor(items, i) ==
    IF i > Len(items) THEN {<<>>}
    ELSE LET here == IF IsStr(items[i].permalinkUrl) /\ Truthy(items[i].permalinkUrl)
                     THEN Env ELSE {DefaultEnv}
         IN  {<<e>> \o rest : e \in here, rest \in EnvsFor(items, i + 1)}

Init ==
    /\ phase = "idle"
    /\ request = NoRequest
    /\ view = NoView
    /\ response = NoView
    /\ runs = <<>>
    /\ acked = "n/a"
    /\ started = [v \in StartIds |-> 0]
    /\ bucket = {}
    /\ inbox = [m \in MsgIds |-> Unpublished]
    /\ outbox = <<>>
    /\ threads = [main |-> "serving", pubsub |-> "listening"]

\* operations are handled until MaxStarts pipeline runs have been started
Budget == SumOver(started, StartIds) < MaxStarts

\* the effect of the pipeline runs rs on the process-wide state
Effects(rs) ==
    /\ started' = [v \in StartIds |-> started[v] + CountRuns(rs, v)]
    /\ bucket' = bucket \cup StoredBy(rs, 1)
    /\ runs' = rs

\* POST or HEAD /webhook
Webhook ==
    /\ phase = "idle"
    /\ threads.main = "serving"
    /\ Budget
    /\ \E req \in WebhookRequests :
         \E payload \in (IF req.method = "HEAD" THEN {JsonNone} ELSE request_get_json(req)) :
           \E envs \in EnvsFor(payload.items, 1) :
             \E h \in {youtube_webhook(req, payload, envs)} :
                 /\ Effects(h.runs)
                 /\ request' = req
                 /\ view' = h.view
                 /\ response' = full_dispatch_request(h.view)
    /\ phase' = "handled"
    /\ UNCHANGED <<acked, inbox, outbox, threads>>

\* GET, POST or HEAD /youtube_webhook
LegacyWebhook ==
    /\ phase = "idle"
    /\ threads.main = "serving"
    /\ Budget
    /\ \E req \in LegacyRequests :
         \E env \in (IF req.body.k = "xml" THEN Env ELSE {DefaultEnv}) :
           \E h \in {youtube_webhook_legacy(req, env)} :
               /\ Effects(h.runs)
               /\ request' = req
               /\ view' = h.view
               /\ response' = full_dispatch_request(h.view)
    /\ phase' = "handled"
    /\ UNCHANGED <<acked, inbox, outbox, threads>>

\* GET, POST or HEAD on the /webhook route of WebSubSubscriber
SubscriberWebhook ==
    /\ phase = "idle"
    /\ \E req \in SubscriberRequests :
         \E v \in {subscriber_webhook(req)} :
             /\ Effects(<<>>)
             /\ request' = req
             /\ view' = v
             /\ response' = InternalServerError(v)
    /\ phase' = "handled"
    /\ UNCHANGED <<acked, inbox, outbox, threads>>

\* a direct call of TranscriptProcessor.process_video
SummarizerProcessVideo ==
    /\ phase = "idle"
    /\ Budget
    /\ \E v \in VideoIds, env \in Env :
         /\ \E r \in {TranscriptProcessor_process_video(v, env)} : Effects(<<r>>)
         /\ request' = [route |-> "TranscriptProcessor.process_video", method |-> "call"]
    /\ phase' = "handled"
    /\ UNCHANGED <<view, response, acked, inbox, outbox, threads>>

\* the request context ends: the handler's outcome is forgotten
Return ==
    /\ phase = "handled"
    /\ phase' = "idle"
    /\ request' = NoRequest
    /\ view' = NoView
    /\ response' = NoView
    /\ runs' = <<>>
    /\ acked' = "n/a"
    /\ outbox' = <<>>
    /\ UNCHANGED <<started, bucket, inbox, threads>>

\* a publisher puts a message on the subscription
Publish ==
    /\ phase = "idle"
    /\ \E m \in MsgIds, data \in MessageData :
         /\ inbox[m].status = "unpublished"
         /\ inbox' = [inbox EXCEPT ![m] = [status |-> "pending", data |-> data,
                                           deliveries |-> 0, attempts |-> 0]]
    /\ UNCHANGED <<phase, request, view, response, runs, acked, started, bucket,
                   outbox, threads>>

\* the transport delivers a pending message to the callback; a message that
\* was nacked stays pending and is delivered again
Callback ==
    /\ phase = "idle"
    /\ threads.pubsub = "listening"
    /\ Budget
    /\ \E m \in MsgIds, env \in Env :
         /\ inbox[m].status = "pending"
         /\ inbox[m].deliveries < MaxDeliveries
         /\ \E c \in {callback(inbox[m].data, env)} :
                /\ Effects(c.runs)
                /\ acked' = c.outcome
                /\ inbox' = [inbox EXCEPT ![m] =
                               [status |-> IF c.outcome = "ack" THEN "acked" ELSE "pending",
                                data |-> @.data,
                                deliveries |-> @.deliveries + 1,
                                attempts |-> @.attempts + Len(c.runs)]]
                /\ request' = [route |-> "pubsub", method |-> "callback", msg |-> m]
    /\ phase' = "handled"
    /\ UNCHANGED <<view, response, outbox, threads>>

Next == Webhook \/ LegacyWebhook \/ SubscriberWebhook \/ SummarizerProcessVideo \/ Return

Spec == Init /\ [][Next]_vars

\* a caller invokes extract_id(text)
ExtractId ==
    /\ phase = "idle"
    /\ \E text \in Texts :
         /\ request' = [route |-> "extract_id", method |-> "call", text |-> text]
         /\ view' = [kind |-> "returned", status |-> 0, body |-> extract_id(text)]
    /\ phase' = "handled"
    /\ UNCHANGED <<response, runs, acked, started, bucket, inbox, outbox, threads>>

NextExtract == ExtractId \/ Return

SpecExtract == Init /\ [][NextExtract]_vars

NextPubSub == Publish \/ Callback \/ Return

SpecPubSub == Init /\ [][NextPubSub]_vars

\* the process's threads: main runs app.run, pubsub is the daemon thread that
\* runs listen_for_pubsub_messages.  An exception that leaves a thread's target
\* ends that thread and no other.
thread_exception_ends_process(ts, t) == [u \in DOMAIN ts |-> "dead"]

thread_exception(ts, t) == [ts EXCEPT ![t] = "dead"]

\* the streaming pull behind subscriber.subscribe ends: its future is not
\* kept, the thread stays in its sleep loop and no callback runs any more
stream_closed(ts) == [ts EXCEPT !.pubsub = "disconnected"]

\* listen_for_pubsub_messages raises
ListenerRaise ==
    /\ threads.pubsub # "dead"
    /\ threads' = thread_exception(threads, "pubsub")
    /\ UNCHANGED <<phase, request, view, response, runs, acked, started, bucket,
                   inbox, outbox>>

\* the connection of the listener to Pub/Sub is lost
ListenerDisconnect ==
    /\ threads.pubsub = "listening"
    /\ threads' = stream_closed(threads)
    /\ UNCHANGED <<phase, request, view, response, runs, acked, started, bucket,
                   inbox, outbox>>

\* GET /
health_check ==
    Resp(200, [status |-> "healthy", message |-> "YouTube Daily Summaries API is running"])

HealthCheck ==
    /\ phase = "idle"
    /\ threads.main = "serving"
    /\ request' = [route |-> "/", method |-> "GET"]
    /\ view' = health_check
    /\ response' = full_dispatch_request(health_check)
    /\ phase' = "handled"
    /\ UNCHANGED <<runs, acked, started, bucket, inbox, outbox, threads>>

\* the requests to /youtube_webhook that carry no body
BodylessRequests == {req \in LegacyRequests : req.method # "POST"}

\* GET or HEAD /youtube_webhook
LegacyVerification ==
    /\ phase = "idle"
    /\ threads.main = "serving"
    /\ \E req \in BodylessRequests :
         \E h \in {youtube_webhook_legacy(req, DefaultEnv)} :
             /\ Effects(h.runs)
             /\ request' = req
             /\ view' = h.view
             /\ response' = full_dispatch_request(h.view)
    /\ phase' = "handled"
    /\ UNCHANGED <<acked, inbox, outbox, threads>>

\* the service as app.py's __main__ runs it: the HTTP server in the main
\* thread, the Pub/Sub listener in its own thread
NextService ==
    \/ HealthCheck
    \/ LegacyVerification
    \/ Publish
    \/ Callback
    \/ ListenerRaise
    \/ ListenerDisconnect
    \/ Return

SpecService == Init /\ [][NextService]_vars


\* a caller invokes subscribe_to_channel(channel_id)
SubscribeToChannel ==
    /\ phase = "idle"
    /\ \E c \in ChannelIds, hub \in HubAnswers :
         \E r \in {subscribe_to_channel(c, hub)} :
             /\ request' = [route |-> "subscribe_to_channel", method |-> "call",
                            channel |-> c, hub |-> <<hub>>]
             /\ view' = Returns(r.ret)
             /\ outbox' = r.sent
    /\ phase' = "handled"
    /\ UNCHANGED <<response, runs, acked, started, bucket, inbox, threads>>

\* a caller invokes WebSubSubscriber.subscribe(callback_url, channel_id)
SubscriberSubscribe ==
    /\ phase = "idle"
    /\ \E https \in BOOLEAN, c \in ChannelIds, hub \in HubAnswers :
         \E r \in {WebSubSubscriber_subscribe(https, c, hub)} :
             /\ request' = [route |-> "WebSubSubscriber.subscribe", method |-> "call",
                            channel |-> c, hub |-> <<hub>>]
             /\ view' = Returns(r.ret)
             /\ outbox' = r.sent
    /\ phase' = "handled"
    /\ UNCHANGED <<response, runs, acked, started, bucket, inbox, threads>>

\* a caller invokes WebSubSubscriber.test_subscription(callback_url, channel_id)
TestSubscription ==
    /\ phase = "idle"
    /\ \E c \in ChannelIds, hubs \in [1..2 -> HubAnswers] :
         \E r \in {test_subscription(c, hubs)} :
             /\ request' = [route |-> "WebSubSubscriber.test_subscription",
                            method |-> "call", channel |-> c, hub |-> hubs]
             /\ view' = Returns(r.ret)
             /\ outbox' = r.sent
    /\ phase' = "handled"
    /\ UNCHANGED <<response, runs, acked, started, bucket, inbox, threads>>

\* a caller invokes cloud_storage.upload_summary(summary, video_id, channel_id,
\* video_title, channel_name)
UploadSummary ==
    /\ phase = "idle"
    /\ Cardinality(bucket) < MaxUploads
    /\ \E kwargs \in UploadKwargs, gcs \in Gcs, now \in Clock :
         \E u \in {upload_summary(kwargs, gcs, now)} :
             /\ request' = [route |-> "upload_summary", method |-> "call",
                            kwargs |-> kwargs, gcs |-> gcs, now |-> now,
                            existed |-> \E b \in bucket : Str(b.name) = u.arg]
             /\ view' = [kind |-> IF u.raised THEN "raised" ELSE "returned",
                         status |-> 0, body |-> u.url, name |-> u.arg]
             /\ bucket' = bucket \cup u.stored
    /\ phase' = "handled"
    /\ UNCHANGED <<response, runs, acked, started, inbox, outbox, threads>>

\* transcripts handed to generate_summary: None, the empty text, a short text,
\* a text of exactly the truncation length and one that is a character longer
Transcripts ==
    {None, Txt(0), Txt(5), Txt(max_transcript_length), Txt(max_transcript_length + 1)}

\* a caller invokes TranscriptProcessor.generate_summary(transcript)
GenerateSummary ==
    /\ phase = "idle"
    /\ \E transcript \in Transcripts, gemini \in Gemini :
         \E g \in {generate_summary(transcript, gemini)} :
             /\ request' = [route |-> "generate_summary", method |-> "call",
                            transcript |-> transcript, gemini |-> gemini]
             /\ view' = [kind |-> "returned", status |-> 0, body |-> g.ret,
                         invoked |-> g.invoked, prompt_len |-> g.prompt_len]
    /\ phase' = "handled"
    /\ UNCHANGED <<response, runs, acked, started, bucket, inbox, outbox, threads>>

\* Pub/Sub invokes the Cloud Function handle_pubsub(event, context)
HandlePubsub ==
    /\ phase = "idle"
    /\ \E event \in Events, render \in RenderAnswers :
         \E r \in {handle_pubsub(event, render)} :
             /\ request' = [route |-> "handle_pubsub", method |-> "call",
                            event |-> event, render |-> render]
             /\ view' = r.ret
             /\ outbox' = r.sent
    /\ phase' = "handled"
    /\ UNCHANGED <<response, runs, acked, started, bucket, inbox, threads>>

NextCalls ==
    \/ SubscribeToChannel
    \/ SubscriberSubscribe
    \/ TestSubscription
    \/ UploadSummary
    \/ GenerateSummary
    \/ HandlePubsub
    \/ Return

SpecCalls == Init /\ [][NextCalls]_vars

\* ------------------------------------------------------------------ claims
StageCalls(r, stage) == {j \in DOMAIN r.calls : r.calls[j].stage = stage}

Stages(r) == [j \in DOMAIN r.calls |-> r.calls[j].stage]

\* the collaborator's answer in call c is a success of its stage
StageOk(c) ==
    CASE c.stage = "TRANSCRIPT" -> TranscriptYieldsText(c.outcome)
      [] c.stage = "SUMMARY" -> SummaryNonEmpty(c.outcome)
      [] OTHER -> c.outcome = "ok"

Handled_(route, method) ==
    phase = "handled" /\ request.route = route /\ request.method = method

\* C1: process_video never raises to its caller: every pipeline run ends with a
\* result value that reports success or failure.
C1_ProcessNeverRaises ==
    \A i \in DOMAIN runs : runs[i].outcome \in {"True", "False"}

\* C2: when the transcript collaborator returns text, the summarization
\* collaborator returns a non-empty summary and the storage collaborator
\* accepts every upload it is asked for, the run reports success and the
\* summary is in storage exactly once, under the derived filename.
C2_HappyPathStoresOnce ==
    \A i \in DOMAIN runs :
        ( /\ \E j \in StageCalls(runs[i], "TRANSCRIPT") : StageOk(runs[i].calls[j])
          /\ \E j \in StageCalls(runs[i], "SUMMARY") : StageOk(runs[i].calls[j])
          /\ \A j \in StageCalls(runs[i], "STORAGE") : StageOk(runs[i].calls[j]) )
        => /\ runs[i].outcome = "True"
           /\ Cardinality(StageCalls(runs[i], "STORAGE")) = 1
           /\ Cardinality(runs[i].stored) = 1
           /\ \A b \in runs[i].stored : b.name = derived_filename(runs[i].vid)

\* C3: when the transcript collaborator yields no text, the run reports
\* failure (it returns False) and the summarization model is not invoked.
C3_NoTranscriptReportsFailure ==
    \A i \in DOMAIN runs :
        (\E j \in StageCalls(runs[i], "TRANSCRIPT") : ~StageOk(runs[i].calls[j]))
        => /\ runs[i].outcome = "False"
           /\ StageCalls(runs[i], "SUMMARY") = {}

\* C4: when the summarization collaborator raises or answers an empty
\* response, the run reports failure (it returns False) and the storage
\* collaborator is not invoked.
C4_NoSummaryReportsFailure ==
    \A i \in DOMAIN runs :
        (\E j \in StageCalls(runs[i], "SUMMARY") :
            runs[i].calls[j].outcome.k = "raise" \/ runs[i].calls[j].outcome.len = 0)
        => /\ runs[i].outcome = "False"
           /\ StageCalls(runs[i], "STORAGE") = {}

C6_AtMostOncePerVideo == \A v \in StartIds : started[v] <= 1

\* C7: a Pub/Sub message yields at most one pipeline attempt, also after the
\* attempt has failed.
C7_OneAttemptPerMessage == \A m \in MsgIds : inbox[m].attempts <= 1

\* the body of a POST to /webhook is empty, not JSON, or JSON without an item list
NoItemList(req) ==
    \/ req.body.k \in {"empty", "garbage"}
    \/ req.body.k = "json" /\ ~(req.body.json.k = "dict" /\ req.body.json.has_items)

\* the body of a POST to /youtube_webhook is empty or cannot be parsed as XML
NoXml(req) == req.body.k \in {"empty", "not_utf8", "malformed"}

MalformedPost ==
    \/ Handled_("/webhook", "POST") /\ NoItemList(request)
    \/ Handled_("/youtube_webhook", "POST") /\ NoXml(request)

\* C8: a POST whose body is empty, is not parseable XML, or is not JSON with an
\* item list is answered by the handler itself, without raising, and starts no
\* pipeline run.
C8_MalformedPostYieldsNoEvents ==
    MalformedPost
        => /\ view.kind = "response"
           /\ view.status \in {200, 400, 500}
           /\ response = view
           /\ runs = <<>>

\* C8 witness: a POST to /youtube_webhook whose body cannot be decoded has
\* been answered
C8_UndecodablePostAnswered ==
    /\ Handled_("/youtube_webhook", "POST")
    /\ request.body.k = "not_utf8"
    /\ response.status = 500

\* C9: every request to /webhook or /youtube_webhook ends with a response that
\* carries a status code; the view function lets no exception out.
C9_EveryRequestAnswered ==
    (phase = "handled" /\ request.route \in {"/webhook", "/youtube_webhook"})
        => /\ response.kind = "response"
           /\ response.status \in 100..599
           /\ view.kind # "raised"

\* C9 witness: a HEAD request to /youtube_webhook, for which the view returns
\* nothing, has been answered by the error handler
C9_HeadAnsweredByErrorHandler ==
    /\ Handled_("/youtube_webhook", "HEAD")
    /\ view.kind = "none"
    /\ response.status = 500

\* the item is a dict without a usable url: permalinkUrl missing, null or empty
NoUsableUrl(item) == item.k = "dict" /\ item.permalinkUrl \in {Absent, None, Str(<<>>)}

\* the identifier of an item that carries a resolvable YouTube url, or None
ResolvableId(item) ==
    IF /\ item.k = "dict"
       /\ IsStr(item.permalinkUrl)
       /\ \/ Contains(item.permalinkUrl.s, YOUTUBE_COM)
          \/ Contains(item.permalinkUrl.s, YOUTU_BE)
    THEN extract_id(item.permalinkUrl.s)
    ELSE None

\* C10: in a batched JSON delivery whose items are dicts, one of them without
\* a usable url, the delivery is answered with success and every item with a
\* resolvable YouTube url has been handed to the pipeline.
C10_ItemWithoutUrlIsSkipped ==
    ( /\ Handled_("/webhook", "POST")
      /\ request.json_mimetype
      /\ request.body.k = "json"
      /\ request.body.json.k = "dict"
      /\ request.body.json.has_items
      /\ \A i \in DOMAIN request.body.json.items : request.body.json.items[i].k = "dict"
      /\ \E i \in DOMAIN request.body.json.items : NoUsableUrl(request.body.json.items[i]) )
    => /\ response.status = 200
       /\ \A i \in DOMAIN request.body.json.items :
             ResolvableId(request.body.json.items[i]) # None
                => \E j \in DOMAIN runs :
                      runs[j].vid = ResolvableId(request.body.json.items[i]).s

\* the identifiers of the pipeline runs of the operation handled last, in order
RunIds == [j \in DOMAIN runs |-> runs[j].vid]

\* C11: an Atom notification with two entries, each with its own yt:videoId,
\* makes two pipeline runs, one per entry, in document order.
C11_TwoEntriesTwoRuns ==
    ( /\ Handled_("/youtube_webhook", "POST")
      /\ request.body.k = "xml"
      /\ Len(request.body.entries) = 2
      /\ \A i \in 1..2 : IsStr(request.body.entries[i])
                          /\ request.body.entries[i].s \in VideoIds
      /\ request.body.entries[1] # request.body.entries[2] )
    => RunIds = <<request.body.entries[1].s, request.body.entries[2].s>>

\* the identifiers of the items that carry a resolvable YouTube url, in the
\* order of the items
RECURSIVE ResolvableIds(_, _)
ResolvableIds(items, i) ==
    IF i > Len(items) THEN <<>>
    ELSE IF ResolvableId(items[i]) # None
    THEN <<ResolvableId(items[i]).s>> \o ResolvableIds(items, i + 1)
    ELSE ResolvableIds(items, i + 1)

\* the identifiers of the runs of rs that returned, in the order of the runs
RECURSIVE Completed(_, _)
Completed(rs, i) ==
    IF i > Len(rs) THEN <<>>
    ELSE IF rs[i].outcome # "raised" THEN <<rs[i].vid>> \o Completed(rs, i + 1)
    ELSE Completed(rs, i + 1)

\* a batched JSON delivery was handled whose items are dicts with a str (or no)
\* permalinkUrl
BatchHandled ==
    /\ Handled_("/webhook", "POST")
    /\ request.json_mimetype
    /\ request.body.k = "json"
    /\ request.body.json.k = "dict"
    /\ request.body.json.has_items
    /\ \A i \in DOMAIN request.body.json.items :
          /\ request.body.json.items[i].k = "dict"
          /\ request.body.json.items[i].permalinkUrl \notin {None, JNum}

Shapes ==
    << <<"v", "=">>,
       <<"y", "o", "u", "t", "u", ".", "b", "e", "/">>,
       <<"e", "m", "b", "e", "d", "/">>,
       <<"s", "h", "o", "r", "t", "s", "/">> >>

\* the positions of text where prefix is followed by 11 identifier characters
Matches(text, prefix) == {i \in 1..Len(text) : MatchAt(text, i, prefix)}

\* the 11 characters after the leftmost such position
FirstToken(text, prefix) ==
    SubSeq(text, Min(Matches(text, prefix)) + Len(prefix),
           Min(Matches(text, prefix)) + Len(prefix) + IdLen - 1)

Extracted == phase = "handled" /\ request.route = "extract_id"

\* C13: extract_id returns the capture of the first url shape, in the order
\* v=, youtu.be/, embed/, shorts/, that the text matches; when no shape
\* matches, the first run of 11 identifier characters; when there is none,
\* None; and it always returns.
C13_ExtractPriorityOrder ==
    Extracted
        => /\ view.kind = "returned"
           /\ \A k \in 1..4 :
                 ( /\ Matches(request.text, Shapes[k]) # {}
                   /\ \A j \in 1..(k - 1) : Matches(request.text, Shapes[j]) = {} )
                 => view.body = Str(FirstToken(request.text, Shapes[k]))
           /\ (\A k \in 1..4 : Matches(request.text, Shapes[k]) = {})
                 => IF Matches(request.text, <<>>) # {}
                    THEN view.body = Str(FirstToken(request.text, <<>>))
                    ELSE view.body = None

\* C13 witness: a text in which shorts/<id> stands before embed/<id> was
\* resolved to the identifier after embed/
C13_EmbedBeforeShorts ==
    /\ Extracted
    /\ Matches(request.text, Shapes[1]) = {}
    /\ Matches(request.text, Shapes[2]) = {}
    /\ Matches(request.text, Shapes[3]) # {}
    /\ Matches(request.text, Shapes[4]) # {}
    /\ Min(Matches(request.text, Shapes[4])) < Min(Matches(request.text, Shapes[3]))
    /\ view.body = Str(ID_C)

\* C14: for a text that holds v= followed by 11 identifier characters,
\* extract_id returns the 11 characters after (the leftmost such) v=,
\* whatever else the text holds.
C14_VEqualsTokenWins ==
    (Extracted /\ Matches(request.text, <<"v", "=">>) # {})
        => /\ view.body = Str(FirstToken(request.text, <<"v", "=">>))
           /\ \E i \in Matches(request.text, <<"v", "=">>) :
                 view.body.s = SubSeq(request.text, i + 2, i + 1 + IdLen)

\* C14 witness: a text in which a youtu.be/<id> shape and a bare run of 11
\* identifier characters stand before the v=<id> was resolved to the v= token
C14_VEqualsAfterOtherShapes ==
    /\ Extracted
    /\ Matches(request.text, <<"v", "=">>) # {}
    /\ Matches(request.text, Shapes[2]) # {}
    /\ Min(Matches(request.text, Shapes[2])) < Min(Matches(request.text, <<"v", "=">>))
    /\ Min(Matches(request.text, <<>>)) < Min(Matches(request.text, <<"v", "=">>))
    /\ view.body = Str(ID_A)

\* C15: every identifier a pipeline run is started with has exactly 11
\* characters, all of them from [A-Za-z0-9_-].
C15_RunsGetVideoIdentifiers ==
    \A i \in DOMAIN runs :
        /\ Len(runs[i].vid) = IdLen
        /\ \A j \in DOMAIN runs[i].vid : runs[i].vid[j] \in IdChars

\* a verification GET was answered, by app.py or by WebSubSubscriber
VerificationHandled ==
    /\ phase = "handled"
    /\ request.route \in {"/youtube_webhook", "WebSubSubscriber/webhook"}
    /\ request.method = "GET"

\* C16: a verification GET with mode subscribe, a topic and a non-empty
\* challenge is answered with status 200 and the challenge as the body, and
\* no pipeline run is made.
C16_SubscribeChallengeEchoed ==
    ( /\ VerificationHandled
      /\ request.args.hub_mode = Str(S_subscribe)
      /\ request.args.hub_topic # None
      /\ Truthy(request.args.hub_challenge) )
    => /\ response = Resp(200, request.args.hub_challenge)
       /\ runs = <<>>

\* C16 witness: the challenge abc123 of a subscribe verification with a topic
\* was echoed
C16_Abc123Echoed ==
    /\ VerificationHandled
    /\ request.route = "/youtube_webhook"
    /\ request.args = [hub_mode |-> Str(S_subscribe), hub_topic |-> Str(S_topic),
                       hub_challenge |-> Str(S_challenge)]
    /\ response.status = 200
    /\ response.body = Str(S_challenge)

\* C17: a verification GET without a topic, without a challenge, or with a
\* mode other than subscribe and unsubscribe is rejected: the status is not
\* 2xx and the challenge is not echoed.
C17_InvalidVerificationRejected ==
    ( /\ VerificationHandled
      /\ \/ request.args.hub_topic = None
         \/ request.args.hub_challenge = None
         \/ request.args.hub_mode \notin {Str(S_subscribe), Str(S_unsubscribe)} )
    => /\ response.status \notin 200..299
       /\ response.body # request.args.hub_challenge

\* C18: a verification GET with mode unsubscribe, a topic and a non-empty
\* challenge is answered with a 2xx status and the challenge as the body.
C18_UnsubscribeChallengeEchoed ==
    ( /\ VerificationHandled
      /\ request.args.hub_mode = Str(S_unsubscribe)
      /\ request.args.hub_topic # None
      /\ Truthy(request.args.hub_challenge) )
    => /\ response.status \in 200..299
       /\ response.body = request.args.hub_challenge

\* C19: a HEAD request to /webhook is answered with status 200 and an empty
\* body whatever payload and collaborators stand behind it, makes no pipeline
\* run and changes neither the run counts, the bucket nor the subscription.
C19_HeadWebhookChangesNothing ==
    [][ (request'.route = "/webhook" /\ request'.method = "HEAD")
          => /\ response' = Resp(200, Str(<<>>))
             /\ runs' = <<>>
             /\ started' = started
             /\ bucket' = bucket
             /\ inbox' = inbox
             /\ \A payload \in JsonPayloads \cup {JsonRaise} :
                  \A envs \in EnvsFor(payload.items, 1) :
                     youtube_webhook(request', payload, envs)
                         = Handled(Resp(200, Str(<<>>)), <<>>) ]_vars

\* C19 witness: a HEAD request to /webhook was answered
C19_HeadWebhookAnswered ==
    /\ Handled_("/webhook", "HEAD")
    /\ response.status = 200

\* an Atom document without an identifiable video: no yt:videoId element with text
NoVideoDocs == {d \in XmlDocs : \A i \in DOMAIN d : d[i] \in {Absent, None}}

\* the status with which a POST of the body b to /youtube_webhook is answered
LegacyPostStatus(b) ==
    full_dispatch_request(
        youtube_webhook_legacy([route |-> "/youtube_webhook", method |-> "POST",
                                args |-> NoArgs, body |-> b], DefaultEnv).view).status

SubscribeAnswered ==
    /\ phase = "handled"
    /\ request.route \in {"subscribe_to_channel", "WebSubSubscriber.subscribe",
                          "WebSubSubscriber.test_subscription"}
    /\ outbox # <<>>
    /\ request.hub[Len(request.hub)].k = "status"

\* C21: a subscribe operation reports success exactly when the hub answered
\* its subscribe request with status 202 or 204.
C21_SuccessOn202Or204 ==
    SubscribeAnswered
        => (view.body <=> request.hub[Len(request.hub)].code \in {202, 204})

TestSubscriptionReturned ==
    phase = "handled" /\ request.route = "WebSubSubscriber.test_subscription"

\* C28: test_subscription sends exactly two requests to the hub for the
\* channel, the unsubscribe request first and the subscribe request second,
\* whatever the hub answered to the first, and returns what the subscribe
\* attempt alone gave.
C28_UnsubscribeThenSubscribe ==
    TestSubscriptionReturned
        => /\ outbox = <<HubRequest("unsubscribe", request.channel),
                         HubRequest("subscribe", request.channel)>>
           /\ view.body = attempt_subscription("subscribe", request.channel,
                                               request.hub[2]).ret

\* C28 witness: the unsubscribe request failed, the subscribe request was
\* answered 204, and test_subscription returned True
C28_SubscribedAfterFailedUnsubscribe ==
    /\ TestSubscriptionReturned
    /\ request.hub[1].k = "RequestException"
    /\ request.hub[2] = [k |-> "status", code |-> 204]
    /\ Len(outbox) = 2
    /\ view.body = TRUE

UploadReturned == phase = "handled" /\ request.route = "upload_summary"

KeptChars == Lower \cup Upper \cup Digit \cup OtherAlnum \cup {" ", "_", "-"}

\* name with every character outside KeptChars replaced by an underscore
Sanitized(name) == [i \in 1..Len(name) |-> IF name[i] \in KeptChars THEN name[i] ELSE "_"]

\* C23: in the object name, channel name and video title keep every letter,
\* digit, space, underscore and hyphen and have every other character
\* replaced with an underscore.
C23_SanitizeKeepsHyphen ==
    UploadReturned
        => view.name = Str(S_summaries \o request.kwargs.channel_id \o <<"/">>
                             \o Sanitized(request.kwargs.channel_name) \o <<"_">>
                             \o Sanitized(request.kwargs.video_title) \o S_summary_txt)

\* C24: when generate_summary calls the summarization model, the prompt
\* holds the whole transcript it was given: no character of it is dropped.
C24_WholeTranscriptSummarized ==
    (phase = "handled" /\ request.route = "generate_summary" /\ view.invoked)
        => view.prompt_len = request.transcript.len

\* C26: the listener callback acks a message only when a pipeline run was made
\* for its video and that run succeeded.
C26_AckOnlyOnSuccess ==
    (phase = "handled" /\ request.route = "pubsub" /\ acked = "ack")
        => \E i \in DOMAIN runs : runs[i].outcome = "True"

\* C27: handle_pubsub sends at most one request to the render endpoint, and
\* only for an event whose data decodes to JSON text; for an event without
\* data, with data that cannot be decoded, or with text that is not JSON, it
\* returns without sending and without raising.
C27_MalformedEventNotForwarded ==
    (phase = "handled" /\ request.route = "handle_pubsub")
        => /\ Len(outbox) <= 1
           /\ (outbox # <<>>) => (request.event.k = "json")
           /\ (request.event.k # "json") => (outbox = <<>> /\ view.kind = "returned")

\* a request to / or /youtube_webhook has been handled
HttpHandled == phase = "handled" /\ request.route \in {"/", "/youtube_webhook"}

====
